---- MODULE Spec2Model ----
(***************************************************************************)
(* A model of the portfolio generation core of partha0213/portfolio_generator *)
(* (backend/services/lovable_style_generator.py): PortfolioGenerator with    *)
(* its extractor, validator, the refine_portfolio orchestrator and the       *)
(* stream_refine_portfolio event generator.                                  *)
(*                                                                           *)
(* Conventions.                                                              *)
(*  - A Python str that the code scans (file contents, model replies) is a   *)
(*    sequence of tokens.  A token is a TLA+ string standing for a run of    *)
(*    characters; the characters the code's patterns single out are tokens   *)
(*    of their own: "\\" is ONE backslash character, "\n" is the newline     *)
(*    character, "s", "n", "w", "/" the letters, "'" and "\"" the quotes,    *)
(*    "<fence>" three backquotes, "json" the language tag, "from" the        *)
(*    keyword,                                                              *)
(*    "@/components/" the alias prefix.  A backslash character occurs only   *)
(*    as the token "\\".                                                     *)
(*  - A token "J:<id>" stands for the JSON serialisation of the value        *)
(*    Doc("J:<id>").                                                         *)
(*  - Python str values the code only builds (messages, error codes) are     *)
(*    TLA+ strings.                                                          *)
(*  - A JSON value is a record tagged by t: "obj" (o: key -> value), "arr"   *)
(*    (a: sequence), "str" (s: tokens), "num", "bool", "null".               *)
(*  - A Python dict of files is a function path -> JSON value.               *)
(***************************************************************************)
EXTENDS Integers, Sequences, FiniteSets, TLC

(* ------------------------------------------------------------------ *)
(* Program constants                                                   *)
(* ------------------------------------------------------------------ *)

MAX_FILES == 60

REQUIRED_CORE_FILES ==
  << "package.json", "app/layout.tsx", "app/page.tsx", "tsconfig.json",
     "tailwind.config.ts" >>

(* ------------------------------------------------------------------ *)
(* Bounds of the model                                                 *)
(* ------------------------------------------------------------------ *)

\* the largest number of filler files file1..fileN put in one file set
MaxFiller == 56

\* the largest number of steps of other tasks counted during one call
MaxOther == 1

(* ------------------------------------------------------------------ *)
(* JSON values and Python helpers                                      *)
(* ------------------------------------------------------------------ *)

JStr(toks) == [t |-> "str", s |-> toks]
JNum == [t |-> "num"]
JNull == [t |-> "null"]
JArr(seq) == [t |-> "arr", a |-> seq]
JObj(f) == [t |-> "obj", o |-> f]

EmptyDict == [p \in {} |-> JNull]

\* type(v).__name__ as it appears in Python's AttributeError messages
PyTypeName(v) ==
  CASE v.t = "obj" -> "dict"
    [] v.t = "arr" -> "list"
    [] v.t = "str" -> "str"
    [] v.t = "num" -> "int"
    [] v.t = "bool" -> "bool"
    [] OTHER -> "NoneType"

\* bool(v)
Truthy(v) ==
  CASE v.t = "obj" -> DOMAIN v.o # {}
    [] v.t = "arr" -> Len(v.a) > 0
    [] v.t = "str" -> Len(v.s) > 0
    [] v.t = "num" -> TRUE
    [] v.t = "bool" -> v.b
    [] OTHER -> FALSE

Exc(type, msg) == [type |-> type, msg |-> msg]
Ok(v) == [ok |-> TRUE, val |-> v]
Raise(type, msg) == [ok |-> FALSE, exc |-> Exc(type, msg)]

RECURSIVE Join(_)
\* "".join(tokens)
Join(toks) == IF toks = <<>> THEN "" ELSE Head(toks) \o Join(Tail(toks))

RECURSIVE JoinWith(_, _)
\* sep.join(strings)
JoinWith(sep, strs) ==
  IF strs = <<>> THEN ""
  ELSE IF Len(strs) = 1 THEN strs[1]
  ELSE strs[1] \o sep \o JoinWith(sep, Tail(strs))

\* d.get(k, default)
DictGet(d, k, default) == IF k \in DOMAIN d THEN d[k] ELSE default

\* right-biased union of two dicts: d.update(e) for a dict e
DictMergeLeft(d, e) ==
  [p \in DOMAIN d \cup DOMAIN e |-> IF p \in DOMAIN d THEN d[p] ELSE e[p]]
DictMerge(d, e) ==
  [p \in DOMAIN d \cup DOMAIN e |-> IF p \in DOMAIN e THEN e[p] ELSE d[p]]

\* an element of an iterable that dict.update accepts as a (key, value) pair
IsPair(x) == x.t = "arr" /\ Len(x.a) = 2 /\ x.a[1].t = "str"

RECURSIVE PairsToDict(_)
\* dict(list of pairs), later pairs winning
PairsToDict(seq) ==
  IF seq = <<>> THEN EmptyDict
  ELSE LET n == Len(seq)
           k == Join(seq[n].a[1].s)
       IN DictMerge(PairsToDict(SubSeq(seq, 1, n - 1)), (k :> seq[n].a[2]))

\* d.update(v) for an arbitrary JSON value v: the new dict or the exception
DictUpdate(d, v) ==
  CASE v.t = "obj" -> Ok(DictMerge(d, v.o))
    [] v.t = "arr" ->
         IF \A i \in 1..Len(v.a) : IsPair(v.a[i])
         THEN Ok(DictMerge(d, PairsToDict(v.a)))
         ELSE Raise("TypeError",
                "cannot convert dictionary update sequence element #0 to a sequence")
    [] v.t = "str" ->
         IF Len(v.s) = 0 THEN Ok(d)
         ELSE Raise("ValueError",
                "dictionary update sequence element #0 has length 1; 2 is required")
    [] OTHER ->
         Raise("TypeError", "'" \o PyTypeName(v) \o "' object is not iterable")

(* ------------------------------------------------------------------ *)
(* Text scanning                                                       *)
(* ------------------------------------------------------------------ *)

\* the whitespace characters str.strip() and JSON remove
Whitespace == {" ", "\n", "\t"}

Quotes == {"'", "\""}

RECURSIVE RunEnd(_, _, _)
\* the first position >= i of toks whose token is not in S (Len+1 when none)
RunEnd(toks, i, S) ==
  IF i > Len(toks) \/ toks[i] \notin S THEN i ELSE RunEnd(toks, i + 1, S)

\* toks[i..] starts with the literal sequence lit
StartsWith(toks, i, lit) ==
  /\ i + Len(lit) - 1 <= Len(toks)
  /\ \A k \in 1..Len(lit) : toks[i + k - 1] = lit[k]

RECURSIVE StripLeft(_)
StripLeft(toks) ==
  IF toks # <<>> /\ Head(toks) \in Whitespace THEN StripLeft(Tail(toks)) ELSE toks

RECURSIVE StripRight(_)
StripRight(toks) ==
  IF toks # <<>> /\ toks[Len(toks)] \in Whitespace
  THEN StripRight(SubSeq(toks, 1, Len(toks) - 1)) ELSE toks

\* str.strip()
Strip(toks) == StripRight(StripLeft(toks))

\* One match of  from <pre> <ws>+ <quote> @/components/ (<cls>+) <quote>  at
\* position i: [ok, name (the captured tokens), end (first position after it)]
ImportMatchAt(toks, i, pre, ws, cls) ==
  LET a == i + 1
      b == a + Len(pre)
      c == RunEnd(toks, b, ws)
      d == c + 2
      e == RunEnd(toks, d, cls)
      ok == /\ i <= Len(toks) /\ toks[i] = "from"
            /\ StartsWith(toks, a, pre)
            /\ c > b
            /\ c <= Len(toks) /\ toks[c] \in Quotes
            /\ c + 1 <= Len(toks) /\ toks[c + 1] = "@/components/"
            /\ e > d
            /\ e <= Len(toks) /\ toks[e] \in Quotes
  IN [ok |-> ok, name |-> IF ok THEN SubSeq(toks, d, e - 1) ELSE <<>>, end |-> e + 1]

RECURSIVE FindallImports(_, _, _, _, _)
\* re.findall of the import pattern from position i: the captured names, joined,
\* of the non-overlapping matches from left to right
FindallImports(toks, i, pre, ws, cls) ==
  IF i > Len(toks) THEN <<>>
  ELSE LET m == ImportMatchAt(toks, i, pre, ws, cls)
       IN IF m.ok THEN <<Join(m.name)>> \o FindallImports(toks, m.end, pre, ws, cls)
          ELSE FindallImports(toks, i + 1, pre, ws, cls)

\* The import pattern of _validate_generated_files.  In the raw string the regex
\* reads: from, a backslash character, one or more letters s, a quote,
\* @/components/, a captured run of characters among backslash, the letter w
\* and slash, a quote.
FindImports(toks) == FindallImports(toks, 1, <<"\\">>, {"s"}, {"\\", "w", "/"})

RECURSIVE FenceClose(_, _)
\* the first position e >= i where backslash, letter n, fence start; 0 if none
FenceClose(toks, i) ==
  IF i + 2 > Len(toks) THEN 0
  ELSE IF StartsWith(toks, i, <<"\\", "n", "<fence>">>) THEN i
  ELSE FenceClose(toks, i + 1)

\* The fence pattern of _extract_json tried at position i.  In the raw string the
\* regex reads: fence, optional json, a backslash character, zero or more
\* letters s, a backslash character, the letter n, a lazy body, a backslash
\* character, the letter n, fence.  The result is [ok, body].
FenceMatchAt(toks, i) ==
  LET k == IF i + 1 <= Len(toks) /\ toks[i + 1] = "json" THEN i + 2 ELSE i + 1
      m == RunEnd(toks, k + 1, {"s"})
      open == /\ i <= Len(toks) /\ toks[i] = "<fence>"
              /\ k <= Len(toks) /\ toks[k] = "\\"
              /\ StartsWith(toks, m, <<"\\", "n">>)
      e == IF open THEN FenceClose(toks, m + 2) ELSE 0
  IN [ok |-> open /\ e > 0, body |-> IF open /\ e > 0 THEN SubSeq(toks, m + 2, e - 1) ELSE <<>>]

RECURSIVE FenceSearch(_, _)
\* re.search(pattern, text, re.DOTALL): the leftmost match
FenceSearch(toks, i) ==
  IF i > Len(toks) THEN [ok |-> FALSE, body |-> <<>>]
  ELSE LET m == FenceMatchAt(toks, i)
       IN IF m.ok THEN m ELSE FenceSearch(toks, i + 1)

(* ------------------------------------------------------------------ *)
(* The file sets and model replies the inputs are drawn from           *)
(* ------------------------------------------------------------------ *)

Range(seq) == {seq[i] : i \in 1..Len(seq)}

PlainCode == JStr(<<"export default function Home() {}">>)

\* app/page.tsx importing component Foo the way the prompts ask for:
\*   import Foo from '@/components/Foo'   newline   ...
PageImportFoo ==
  JStr(<<"import", " ", "Foo", " ", "from", " ", "'", "@/components/", "Foo", "'",
         "\n", "export default function Home() {}">>)

\* app/page.tsx holding the characters  from  backslash  s  '@/components/w'
PageBackslashS ==
  JStr(<<"import", " ", "w", " ", "from", "\\", "s", "'", "@/components/", "w", "'">>)

\* the five required files, app/page.tsx holding page
CoreFiles(page) ==
  [p \in Range(REQUIRED_CORE_FILES) |-> IF p = "app/page.tsx" THEN page ELSE PlainCode]

\* n further source files file1.tsx .. file<n>.tsx
Filler(n) == [p \in {"file" \o ToString(i) \o ".tsx" : i \in 1..n} |-> PlainCode]

PartialFiles ==
  [p \in {"app/layout.tsx", "app/page.tsx", "tailwind.config.ts"} |-> PlainCode]

\* the caller's current_files: Dict[str, str]
CurrentFilesChoices ==
  { EmptyDict,
    CoreFiles(PlainCode),
    PartialFiles,
    DictMerge(CoreFiles(PlainCode),
              [p \in {"README.md", "package-lock.json"} |-> PlainCode]),
    DictMerge(PartialFiles, Filler(MaxFiller)),
    [p \in {"README.md"} |-> PlainCode] }

Reply3(thought, summary, files) ==
  JObj([k \in {"thought", "summary", "files"} |->
          CASE k = "thought" -> JStr(<<thought>>)
            [] k = "summary" -> JStr(<<summary>>)
            [] OTHER -> files])

DocIds ==
  { "J:valid", "J:page_only", "J:rest", "J:dangling", "J:imports_ok",
    "J:backslash_s", "J:too_many", "J:sixty", "J:no_files", "J:files_null",
    "J:files_pairs", "J:num_content", "J:page_num", "J:arr", "J:page_dangling",
    "J:partial" }

\* the JSON value a serialisation token stands for (json.loads of it)
Doc(id) ==
  CASE id = "J:valid" -> Reply3("plan", "built", JObj(CoreFiles(PlainCode)))
    [] id = "J:page_only" ->
         Reply3("plan", "page", JObj([p \in {"app/page.tsx"} |-> PlainCode]))
    [] id = "J:rest" ->
         Reply3("plan", "rest", JObj([p \in {"package.json", "tsconfig.json"} |-> PlainCode]))
    [] id = "J:dangling" -> Reply3("plan", "built", JObj(CoreFiles(PageImportFoo)))
    [] id = "J:imports_ok" ->
         Reply3("plan", "built",
                JObj(DictMerge(CoreFiles(PageImportFoo),
                               [p \in {"components/Foo.tsx"} |-> PlainCode])))
    [] id = "J:backslash_s" -> Reply3("plan", "built", JObj(CoreFiles(PageBackslashS)))
    [] id = "J:too_many" ->
         Reply3("plan", "big", JObj(DictMerge(CoreFiles(PlainCode), Filler(MaxFiller))))
    [] id = "J:sixty" ->
         Reply3("plan", "big",
                JObj(DictMerge(CoreFiles(PlainCode),
                               Filler(MAX_FILES - Len(REQUIRED_CORE_FILES)))))
    [] id = "J:no_files" ->
         JObj([k \in {"response", "design_tips"} |-> JStr(<<"advice">>)])
    [] id = "J:files_null" -> Reply3("plan", "none", JNull)
    [] id = "J:files_pairs" ->
         Reply3("plan", "pairs",
                JArr([i \in 1..Len(REQUIRED_CORE_FILES) |->
                        JArr(<<JStr(<<REQUIRED_CORE_FILES[i]>>), PlainCode>>)]))
    [] id = "J:num_content" ->
         Reply3("plan", "num",
                JObj(DictMerge(CoreFiles(PlainCode), [p \in {"package.json"} |-> JNum])))
    [] id = "J:page_num" -> Reply3("plan", "num", JObj(CoreFiles(JNum)))
    [] id = "J:partial" -> Reply3("plan", "partial", JObj(PartialFiles))
    [] id = "J:page_dangling" ->
         Reply3("plan", "page", JObj([p \in {"app/page.tsx"} |-> PageImportFoo]))
    [] OTHER -> JArr(<<JNum>>)

\* what the model client can do on one call: raise, or return a completion
\* whose message content is a text or None
ModelOutcomes ==
  { [kind |-> "raise", exc |-> Exc("APIConnectionError", "Connection error.")],
    [kind |-> "raise", exc |-> Exc("APITimeoutError", "Request timed out.")],
    [kind |-> "reply", content |-> JNull],
    [kind |-> "reply", content |-> JStr(<<"Sure, here is your portfolio">>)],
    [kind |-> "reply",
     content |-> JStr(<<"<fence>", "json", "\n", "J:valid", "\n", "<fence>">>)],
    [kind |-> "reply",
     content |-> JStr(<<"<fence>", "json", "\\", "s", "\\", "n", "J:valid",
                        "\\", "n", "<fence>">>)] }
  \cup { [kind |-> "reply", content |-> JStr(<<d>>)] : d \in DocIds }

Modes == {"code", "design", "advanced-code", "strategy", "approaches", "speed"}

(* ------------------------------------------------------------------ *)
(* PortfolioGenerator: the pure methods                                *)
(* ------------------------------------------------------------------ *)

\* json.loads(text) for a str: the value, or ok = FALSE when it raises
JsonLoads(toks) ==
  LET body == Strip(toks)
  IN IF Len(body) = 1 /\ body[1] \in DocIds
     THEN Ok(Doc(body[1]))
     ELSE Raise("JSONDecodeError", "Expecting value")

\* _extract_json(text); text is a str or None
_extract_json(text) ==
  IF text.t = "str" /\ JsonLoads(text.s).ok
  THEN JsonLoads(text.s)
  ELSE IF text.t # "str"
  THEN Raise("TypeError", "expected string or bytes-like object")
  ELSE LET m == FenceSearch(text.s, 1)
       IN IF m.ok /\ JsonLoads(Strip(m.body)).ok
          THEN JsonLoads(Strip(m.body))
          ELSE Raise("ValueError", "No valid JSON found in LLM response")

\* _detect_initial_generation(current_files)
DetectAlwaysInitial(current_files) ==
  [is_initial |-> TRUE,
   missing_core_files |->
     SelectSeq(REQUIRED_CORE_FILES, LAMBDA f : f \notin DOMAIN current_files)]
DetectNeverInitial(current_files) ==
  [is_initial |-> FALSE,
   missing_core_files |->
     SelectSeq(REQUIRED_CORE_FILES, LAMBDA f : f \notin DOMAIN current_files)]
DetectEmptyOnly(current_files) ==
  [is_initial |-> Cardinality(DOMAIN current_files) = 0,
   missing_core_files |->
     SelectSeq(REQUIRED_CORE_FILES, LAMBDA f : f \notin DOMAIN current_files)]
_detect_initial_generation(current_files) ==
  LET missing_core_files ==
        SelectSeq(REQUIRED_CORE_FILES, LAMBDA f : f \notin DOMAIN current_files)
  IN [is_initial |-> Cardinality(DOMAIN current_files) = 0 \/ missing_core_files # <<>>,
      missing_core_files |-> missing_core_files]

\* the problems of the required-files rule, in the order of REQUIRED_CORE_FILES
MissingProblems(files) ==
  LET missing == SelectSeq(REQUIRED_CORE_FILES, LAMBDA f : f \notin DOMAIN files)
  IN [i \in 1..Len(missing) |-> "Missing required file: " \o missing[i]]

\* the problem of the file-count rule
NoCountProblems(files) == <<>>
CountAtCeiling(files) ==
  LET n == Cardinality(DOMAIN files)
  IN IF n >= MAX_FILES
     THEN << "Too many files generated (" \o ToString(n) \o " > "
             \o ToString(MAX_FILES) \o ")" >>
     ELSE <<>>
CountProblems(files) ==
  LET n == Cardinality(DOMAIN files)
  IN IF n > MAX_FILES
     THEN << "Too many files generated (" \o ToString(n) \o " > "
             \o ToString(MAX_FILES) \o ")" >>
     ELSE <<>>

\* the problems of the import rule for the names re.findall returned
ImportProblems(files, imports) ==
  LET dangling ==
        SelectSeq(imports, LAMBDA c : ("components/" \o c \o ".tsx") \notin DOMAIN files)
  IN [i \in 1..Len(dangling) |->
        "Component '" \o dangling[i] \o "' imported in app/page.tsx but components/"
        \o dangling[i] \o ".tsx not created"]

\* _validate_generated_files(files): Ok([is_valid, problems]) or the TypeError
\* re.findall raises on a page content that is truthy and not a str
_validate_generated_files(files) ==
  LET page_content == DictGet(files, "app/page.tsx", JStr(<<>>))
  IN IF Truthy(page_content) /\ page_content.t # "str"
     THEN Raise("TypeError", "expected string or bytes-like object")
     ELSE LET problems ==
                MissingProblems(files) \o CountProblems(files)
                \o (IF Truthy(page_content)
                    THEN ImportProblems(files, FindImports(page_content.s))
                    ELSE <<>>)
          IN Ok([is_valid |-> Len(problems) = 0, problems |-> problems])

\* prompts.py: the shared base prompt and the five mode prompts, as the
\* sequence of their sections
get_base_prompt == <<"# AI Portfolio Generator Expert">>
get_code_mode_prompt == get_base_prompt \o <<"MODE: Code Changes">>
get_design_mode_prompt == get_base_prompt \o <<"MODE: Design Tips">>
get_advanced_code_mode_prompt == get_base_prompt \o <<"MODE: Advanced Code Generation">>
get_strategy_mode_prompt == get_base_prompt \o <<"MODE: Design Strategy">>
get_approaches_mode_prompt ==
  get_base_prompt \o <<"MODE: Multiple Implementation Approaches">>

\* _get_system_prompt(mode): prompts.get(mode, get_code_mode_prompt)()
GetPromptCodeOnly(mode) == get_code_mode_prompt
GetPromptBaseForUnknown(mode) ==
  CASE mode = "code" -> get_code_mode_prompt
    [] mode = "design" -> get_design_mode_prompt
    [] mode = "advanced-code" -> get_advanced_code_mode_prompt
    [] mode = "strategy" -> get_strategy_mode_prompt
    [] mode = "approaches" -> get_approaches_mode_prompt
    [] OTHER -> get_base_prompt
_get_system_prompt(mode) ==
  CASE mode = "code" -> get_code_mode_prompt
    [] mode = "design" -> get_design_mode_prompt
    [] mode = "advanced-code" -> get_advanced_code_mode_prompt
    [] mode = "strategy" -> get_strategy_mode_prompt
    [] mode = "approaches" -> get_approaches_mode_prompt
    [] OTHER -> get_code_mode_prompt

\* the paths of the model that fail  k.endswith(('.tsx', '.ts', '.css', '.json',
\* '.js')) and not k.startswith('package-lock')
NonSourcePaths == {"README.md", "package-lock.json"}

\* the source_files comprehension of refine_portfolio
SourceFiles(current_files) ==
  [p \in DOMAIN current_files \ NonSourcePaths |-> current_files[p]]

\* _build_user_message(...): the message as a sequence of blocks; the first block
\* records the values formatted into the text
_build_user_message(refinement_request, resume_data, source_files, is_initial_generation, missing_core_files) ==
  IF is_initial_generation
  THEN << [kind |-> "initial",
           missing_files_str |->
             IF missing_core_files # <<>> THEN JoinWith(", ", missing_core_files)
             ELSE "all files",
           request |-> refinement_request,
           resume |-> resume_data] >>
  ELSE << [kind |-> "refinement",
           request |-> refinement_request,
           resume |-> resume_data,
           current_files |-> DOMAIN source_files] >>

\* the block appended to user_message on a retry (attempt > 1)
FeedbackBlockNoProblems(validation_problems) ==
  [kind |-> "validation_failed_feedback", problems |-> <<>>,
   instruction |-> "CRITICAL: Fix all validation errors."]
FeedbackBlock(validation_problems) ==
  [kind |-> "validation_failed_feedback", problems |-> validation_problems,
   instruction |-> "CRITICAL: Fix all validation errors."]

\* max_attempts = 2 if auto_retry else 1
MaxAttemptsOneMore(auto_retry) == IF auto_retry THEN 3 ELSE 2
max_attempts_of(auto_retry) == IF auto_retry THEN 2 ELSE 1

\* the condition of the retry loop: while attempt < max_attempts and not validation_passed
LoopIgnoresValidation(l) == l.attempt < l.max_attempts
LoopContinues(l) == l.attempt < l.max_attempts /\ ~l.validation_passed

\* len(content.split("\\n")): the separator written in the source is the two
\* characters backslash and n
SplitLen(toks) ==
  1 + Cardinality({i \in 1..(Len(toks) - 1) : toks[i] = "\\" /\ toks[i + 1] = "n"})

\* one entry of edits_made (old_content is a str of current_files or "")
EditRecord(fn, old_content, new_content) ==
  LET old_lines == IF Truthy(old_content) THEN SplitLen(old_content.s) ELSE 0
      new_lines == SplitLen(new_content.s)
      Max0(x) == IF x > 0 THEN x ELSE 0
  IN [file |-> fn,
      lines_added |-> Max0(new_lines - old_lines),
      lines_removed |-> Max0(old_lines - new_lines),
      total_lines |-> new_lines,
      old_content |-> old_content,
      new_content |-> new_content]

\* the "Compute edits" loop over refined_files.items(): the edits by file, or the
\* AttributeError of .items() on a non-dict or of .split on a non-str content
ComputeEditsStrict(current_files, refined_files) ==
  IF refined_files.t # "obj"
  THEN Raise("AttributeError",
             "'" \o PyTypeName(refined_files) \o "' object has no attribute 'items'")
  ELSE LET new == DOMAIN refined_files.o \ DOMAIN current_files
           bad == {fn \in DOMAIN refined_files.o : refined_files.o[fn].t # "str"}
       IN IF bad # {}
          THEN Raise("AttributeError",
                     "'" \o PyTypeName(refined_files.o[CHOOSE fn \in bad : TRUE])
                     \o "' object has no attribute 'split'")
          ELSE IF new # {}
          THEN Raise("KeyError", CHOOSE fn \in new : TRUE)
          ELSE Ok([fn \in DOMAIN refined_files.o |->
                    EditRecord(fn, current_files[fn], refined_files.o[fn])])
ComputeEdits(current_files, refined_files) ==
  IF refined_files.t # "obj"
  THEN Raise("AttributeError",
             "'" \o PyTypeName(refined_files) \o "' object has no attribute 'items'")
  ELSE LET bad == {fn \in DOMAIN refined_files.o : refined_files.o[fn].t # "str"}
       IN IF bad # {}
          THEN Raise("AttributeError",
                     "'" \o PyTypeName(refined_files.o[CHOOSE fn \in bad : TRUE])
                     \o "' object has no attribute 'split'")
          ELSE Ok([fn \in DOMAIN refined_files.o |->
                    EditRecord(fn, DictGet(current_files, fn, JStr(<<>>)),
                               refined_files.o[fn])])

(* ------------------------------------------------------------------ *)
(* State                                                               *)
(* ------------------------------------------------------------------ *)

VARIABLES
  client,    \* self.client is configured (GROQ_API_KEY was set at construction)
  pc,        \* where the refine_portfolio call stands: idle, loop, awaiting, done
  req,       \* the arguments of the call other than current_files
  heap,      \* the dict objects of the call by identity: the caller's
             \* current_files, merged_for_validation, merged
  loc,       \* the local variables of refine_portfolio
  outcome,   \* how the call ended: none, returned, raised
  result,    \* the returned dict (its "files" names a dict object of heap),
             \* or the propagated exception
  sent,      \* the messages of each chat.completions.create call of this call
  hist,      \* history of the call: the current_files as passed, the number
             \* of validator invocations, what each attempt did
  stream,    \* the stream_refine_portfolio generator: where it is suspended,
             \* its arguments and locals, the events it has yielded, the
             \* messages of its model call and how that call ended
  endpoint,  \* generate_lovable_portfolio: where the request stands, whether
             \* Redis is available, the cache entry of the request's key, the
             \* Project rows added, the session's portfolio_code, the responses
  other      \* the number of steps other tasks of the event loop have run
             \* since the current call started

vars ==
  <<client, pc, req, heap, loc, outcome, result, sent, hist, stream, endpoint, other>>

ObjIds == {"current_files", "merged_for_validation", "merged"}

NoReq == [request |-> "", resume |-> "", mode |-> "", auto_retry |-> FALSE]

NoLoc ==
  [is_initial_generation |-> FALSE, missing_core_files |-> <<>>,
   system_prompt |-> <<>>, user_message |-> <<>>, max_attempts |-> 0,
   attempt |-> 0, validation_passed |-> FALSE, refined_files |-> JObj(EmptyDict),
   thought |-> JStr(<<>>), summary |-> JStr(<<>>), validation_problems |-> <<>>,
   tools_used |-> <<>>]

NoHist == [in_files |-> EmptyDict, validations |-> 0, attempts |-> <<>>]

NoResult == [success |-> FALSE]

NoEndpoint ==
  [pc |-> "idle", redis |-> FALSE, cache |-> <<>>, projects |-> <<>>,
   portfolio_code |-> <<>>, responses |-> <<>>]

NoStream ==
  [pc |-> "idle", mode |-> "", in_files |-> EmptyDict, files |-> {},
   system_prompt |-> <<>>, user_message |-> <<>>, response_content |-> JNull,
   events |-> <<>>, sent |-> <<>>, call |-> "none", outcome |-> "none",
   exc |-> Exc("", "")]

Init ==
  /\ client \in BOOLEAN
  /\ pc = "idle"
  /\ req = NoReq
  /\ heap = [o \in ObjIds |-> EmptyDict]
  /\ loc = NoLoc
  /\ outcome = "none"
  /\ result = NoResult
  /\ sent = <<>>
  /\ hist = NoHist
  /\ stream = NoStream
  /\ endpoint = NoEndpoint
  /\ other = 0

(* ------------------------------------------------------------------ *)
(* refine_portfolio                                                    *)
(* ------------------------------------------------------------------ *)

\* dict.copy(): a new dict object dst holding the entries of src
DictAlias(h, src, dst) == [heap |-> h, ref |-> src]
DictFresh(h, src, dst) == [heap |-> [h EXCEPT ![dst] = EmptyDict], ref |-> dst]
DictCopyKeep(h, src, dst) ==
  [heap |-> [h EXCEPT ![dst] = DictMerge(h[src], h[dst])], ref |-> dst]
DictCopy(h, src, dst) == [heap |-> [h EXCEPT ![dst] = h[src]], ref |-> dst]

\* the classes "except Exception" catches: every exception the call can meet
\* derives from Exception
CatchesValueErrorOnly(exc) == exc.type = "ValueError"
ExceptException(exc) ==
  exc.type \in {"ValueError", "TypeError", "AttributeError", "JSONDecodeError",
                "APIConnectionError", "APITimeoutError"}

\* the dict returned when self.client is None
MissingKeyResult ==
  [success |-> FALSE, files |-> "current_files", refined_files |-> JObj(EmptyDict),
   thought |-> "", tools_used |-> <<>>, edits_made |-> <<>>,
   summary |-> "Groq client not configured (GROQ_API_KEY missing)",
   error |-> "missing_groq_key"]

\* the dict returned by the except clause
ExceptionResultCoded(e, tools_used) ==
  [success |-> FALSE, files |-> "current_files", refined_files |-> JObj(EmptyDict),
   thought |-> "Error: " \o e.msg, tools_used |-> tools_used, edits_made |-> <<>>,
   summary |-> "", error |-> "internal_error"]
ExceptionResultMerged(e, tools_used) ==
  [success |-> FALSE, files |-> "merged_for_validation",
   refined_files |-> JObj(EmptyDict), thought |-> "Error: " \o e.msg,
   tools_used |-> tools_used, edits_made |-> <<>>, summary |-> "", error |-> e.msg]
ExceptionResult(e, tools_used) ==
  [success |-> FALSE, files |-> "current_files", refined_files |-> JObj(EmptyDict),
   thought |-> "Error: " \o e.msg, tools_used |-> tools_used, edits_made |-> <<>>,
   summary |-> "", error |-> e.msg]

\* the dict returned when validation has not passed after the loop
ValidationFailedResult(l) ==
  [success |-> FALSE, files |-> "current_files", refined_files |-> l.refined_files,
   thought |-> "Validation failed: " \o JoinWith("; ", l.validation_problems),
   tools_used |-> l.tools_used, edits_made |-> <<>>,
   summary |-> "Portfolio generation failed validation checks",
   error |-> "validation_failed",
   validation_problems |-> l.validation_problems]

\* the dict returned on success
SuccessResult(l, merged, edits_made) ==
  [success |-> TRUE, files |-> merged, refined_files |-> l.refined_files,
   thought |-> l.thought, tools_used |-> l.tools_used, edits_made |-> edits_made,
   summary |-> l.summary, error |-> JNull]

\* an exception e raised inside the try block with locals l: caught by the
\* except clause and turned into a result, or propagated to the caller
ThrowAndContinue(e, l) ==
  /\ pc' = "loop"
  /\ loc' = l
  /\ UNCHANGED <<outcome, result>>
Throw(e, l) ==
  /\ pc' = "done"
  /\ loc' = l
  /\ IF ExceptException(e)
     THEN outcome' = "returned" /\ result' = ExceptionResult(e, l.tools_used)
     ELSE outcome' = "raised" /\ result' = e

\* lines 188-248: the call up to the retry loop
Invoke(current_files, mode, auto_retry) ==
  /\ pc = "idle"
  /\ stream.pc = "idle"
  /\ req' = [request |-> "make the hero darker", resume |-> "resume facts",
             mode |-> mode, auto_retry |-> auto_retry]
  /\ heap' = [heap EXCEPT !["current_files"] = current_files]
  /\ hist' = [NoHist EXCEPT !.in_files = current_files]
  /\ sent' = <<>>
  /\ IF ~client
     THEN /\ pc' = "done"
          /\ outcome' = "returned"
          /\ result' = MissingKeyResult
          /\ loc' = NoLoc
     ELSE LET source_files == SourceFiles(current_files)
              d == _detect_initial_generation(current_files)
          IN /\ pc' = "loop"
             /\ loc' = [NoLoc EXCEPT
                  !.is_initial_generation = d.is_initial,
                  !.missing_core_files = d.missing_core_files,
                  !.tools_used = <<"analyze_request">>,
                  !.system_prompt = _get_system_prompt(mode),
                  !.user_message =
                     _build_user_message(req'.request, req'.resume, source_files,
                                         d.is_initial, d.missing_core_files),
                  !.max_attempts = max_attempts_of(auto_retry)]
             /\ UNCHANGED <<outcome, result>>
  /\ UNCHANGED <<client, stream, other>>

\* lines 250-274: one more turn of the loop up to the model call
CallModel ==
  /\ pc = "loop"
  /\ LoopContinues(loc)
  /\ LET attempt == loc.attempt + 1
         user_message ==
           IF attempt > 1
           THEN Append(loc.user_message, FeedbackBlock(loc.validation_problems))
           ELSE loc.user_message
     IN /\ loc' = [loc EXCEPT !.attempt = attempt, !.user_message = user_message]
        /\ sent' = Append(sent, [system |-> loc.system_prompt, user |-> user_message])
  /\ pc' = "awaiting"
  /\ UNCHANGED <<client, req, heap, outcome, result, hist, stream, endpoint, other>>

\* what one attempt did, for hist
AttemptRecord(o, status, problems) == [reply |-> o, status |-> status, problems |-> problems]

\* lines 276-306 for a completion whose message content is content: the locals,
\* the heap, the exception raised (exc) if any, whether the validator ran
AfterReply(l, h, content) ==
  LET l1 == [l EXCEPT !.tools_used =
                Append(l.tools_used, "generate_code_attempt_" \o ToString(l.attempt))]
      ex == _extract_json(content)
      Out(ll, hh, raised, e, status, ran) ==
        [loc |-> ll, heap |-> hh, raised |-> raised, exc |-> e, status |-> status,
         validated |-> ran]
      None == Exc("", "")
  IN IF ~ex.ok THEN Out(l1, h, TRUE, ex.exc, "extract_raised", FALSE)
     ELSE IF ex.val.t # "obj"
     THEN Out(l1, h, TRUE,
              Exc("AttributeError",
                  "'" \o PyTypeName(ex.val) \o "' object has no attribute 'get'"),
              "not_an_object", FALSE)
     ELSE
       LET l2 == [l1 EXCEPT
                    !.refined_files = DictGet(ex.val.o, "files", JObj(EmptyDict)),
                    !.thought = DictGet(ex.val.o, "thought", JStr(<<>>)),
                    !.summary = DictGet(ex.val.o, "summary", JStr(<<>>))]
       IN IF ~l.is_initial_generation
          THEN Out([l2 EXCEPT !.validation_passed = TRUE], h, FALSE, None,
                   "validation_skipped", FALSE)
          ELSE
            LET cp == DictCopy(h, "current_files", "merged_for_validation")
                up == DictUpdate(cp.heap[cp.ref], l2.refined_files)
            IN IF ~up.ok THEN Out(l2, cp.heap, TRUE, up.exc, "update_raised", FALSE)
               ELSE
                 LET h2 == [cp.heap EXCEPT ![cp.ref] = up.val]
                     v == _validate_generated_files(h2[cp.ref])
                 IN IF ~v.ok THEN Out(l2, h2, TRUE, v.exc, "validate_raised", TRUE)
                    ELSE Out([l2 EXCEPT !.validation_passed = v.val.is_valid,
                                        !.validation_problems = v.val.problems],
                             h2, FALSE, None,
                             IF v.val.is_valid THEN "valid" ELSE "invalid", TRUE)

\* lines 265-306: the model client raises or returns, and the rest of the turn
ModelResponds(o) ==
  /\ pc = "awaiting"
  /\ IF o.kind = "raise"
     THEN /\ Throw(o.exc, loc)
          /\ hist' = [hist EXCEPT !.attempts =
                        Append(@, AttemptRecord(o, "call_raised", <<>>))]
          /\ UNCHANGED heap
     ELSE \E a \in {AfterReply(loc, heap, o.content)} :
             /\ heap' = a.heap
             /\ hist' = [hist EXCEPT
                  !.validations = @ + (IF a.validated THEN 1 ELSE 0),
                  !.attempts = Append(@, AttemptRecord(o, a.status,
                                                       a.loc.validation_problems))]
             /\ IF a.raised
                THEN Throw(a.exc, a.loc)
                ELSE /\ pc' = "loop"
                     /\ loc' = a.loc
                     /\ UNCHANGED <<outcome, result>>
  /\ UNCHANGED <<client, req, sent, stream, endpoint, other>>

\* lines 308-359: after the loop
Finish ==
  /\ pc = "loop"
  /\ ~LoopContinues(loc)
  /\ IF ~loc.validation_passed /\ loc.is_initial_generation
     THEN /\ pc' = "done"
          /\ outcome' = "returned"
          /\ result' = ValidationFailedResult(loc)
          /\ UNCHANGED <<heap, loc>>
     ELSE LET ed == ComputeEdits(heap["current_files"], loc.refined_files)
          IN IF ~ed.ok
             THEN Throw(ed.exc, loc) /\ UNCHANGED heap
             ELSE LET cp == DictCopy(heap, "current_files", "merged")
                      up == DictUpdate(cp.heap[cp.ref], loc.refined_files)
                  IN /\ heap' = [cp.heap EXCEPT ![cp.ref] = up.val]
                     /\ pc' = "done"
                     /\ outcome' = "returned"
                     /\ result' = SuccessResult(loc, cp.ref, ed.val)
                     /\ UNCHANGED loc
  /\ UNCHANGED <<client, req, sent, hist, stream, endpoint, other>>

\* the caller has taken the result; the generator keeps nothing of the call
Return ==
  /\ pc = "done"
  /\ endpoint.pc = "idle"
  /\ pc' = "idle"
  /\ req' = NoReq
  /\ heap' = [o \in ObjIds |-> EmptyDict]
  /\ loc' = NoLoc
  /\ outcome' = "none"
  /\ result' = NoResult
  /\ sent' = <<>>
  /\ hist' = NoHist
  /\ UNCHANGED <<client, stream, endpoint, other>>

(* ------------------------------------------------------------------ *)
(* stream_refine_portfolio                                             *)
(* ------------------------------------------------------------------ *)

\* the events the generator yields
ToolEvent(name, status) == [type |-> "tool", data |-> [name |-> name, status |-> status]]
ResultEvent(data) == [type |-> "result", data |-> data]

\* the data of the result event yielded when self.client is None
StreamMissingKeyResult ==
  [success |-> FALSE, files |-> "current_files", refined_files |-> JObj(EmptyDict),
   thought |-> "Groq client not configured", error |-> "missing_groq_key"]

\* the data of the result event yielded by the except clause
StreamExceptionResult(e) ==
  [success |-> FALSE, files |-> "current_files", refined_files |-> JObj(EmptyDict),
   thought |-> "Error: " \o e.msg, edits_made |-> <<>>, summary |-> "",
   error |-> e.msg]

\* the data of the result event yielded at the end of the try block
StreamSuccessResult(merged, refined_files, thought, summary, edits_made) ==
  [success |-> TRUE, files |-> merged, refined_files |-> refined_files,
   thought |-> thought, edits_made |-> edits_made, summary |-> summary,
   error |-> JNull]

\* an exception e raised inside the try block of the generator st: the except
\* clause yields a result event, or the exception leaves the generator
StreamThrowRaises(st, e) == [st EXCEPT !.pc = "closed", !.outcome = "raised", !.exc = e]
StreamThrow(st, e) ==
  IF ExceptException(e)
  THEN [st EXCEPT !.pc = "result",
                  !.events = Append(@, ResultEvent(StreamExceptionResult(e)))]
  ELSE [st EXCEPT !.pc = "closed", !.outcome = "raised", !.exc = e]

\* lines 467-503 for the message content of the completion: the heap, the
\* exception raised (exc) if any, the data of the success result otherwise
StreamAfterReply(h, content) ==
  LET ex == _extract_json(content)
      Fail(e) == [heap |-> h, raised |-> TRUE, exc |-> e, data |-> NoResult]
  IN IF ~ex.ok THEN Fail(ex.exc)
     ELSE IF ex.val.t # "obj"
     THEN Fail(Exc("AttributeError",
                   "'" \o PyTypeName(ex.val) \o "' object has no attribute 'get'"))
     ELSE
       LET refined_files == DictGet(ex.val.o, "files", JObj(EmptyDict))
           thought == DictGet(ex.val.o, "thought", JStr(<<>>))
           summary == DictGet(ex.val.o, "summary", JStr(<<>>))
           ed == ComputeEdits(h["current_files"], refined_files)
       IN IF ~ed.ok THEN Fail(ed.exc)
          ELSE LET cp == DictCopy(h, "current_files", "merged")
                   up == DictUpdate(cp.heap[cp.ref], refined_files)
               IN [heap |-> [cp.heap EXCEPT ![cp.ref] = up.val],
                   raised |-> FALSE, exc |-> Exc("", ""),
                   data |-> StreamSuccessResult(cp.ref, refined_files, thought,
                                                summary, ed.val)]

\* lines 387-397: the consumer starts iterating; the generator runs to its
\* first yield.  The two methods share nothing but self.client, which neither
\* writes, so the model runs one call at a time.
StreamStart(current_files, mode) ==
  /\ stream.pc = "idle"
  /\ pc = "idle"
  /\ endpoint.pc = "idle"
  /\ heap' = [heap EXCEPT !["current_files"] = current_files]
  /\ stream' = [NoStream EXCEPT
       !.pc = "analyzing", !.mode = mode, !.in_files = current_files,
       !.events = <<ToolEvent("analyze_request", "running")>>]
  /\ UNCHANGED <<client, pc, req, loc, outcome, result, sent, hist, endpoint, other>>

\* lines 399-412: the source files are picked and the second event yielded
StreamAnalyze ==
  /\ stream.pc = "analyzing"
  /\ stream' = [stream EXCEPT
       !.pc = "analyzed",
       !.files = DOMAIN SourceFiles(heap["current_files"]),
       !.events = Append(@, ToolEvent("analyze_request", "success"))]
  /\ UNCHANGED <<client, pc, req, heap, loc, outcome, result, sent, hist, endpoint, other>>

\* lines 414-442: without a client the failed result is yielded; with one the
\* prompt and the user message are built and generate_code running is yielded
StreamPrepare ==
  /\ stream.pc = "analyzed"
  /\ IF ~client
     THEN stream' = [stream EXCEPT
            !.pc = "result",
            !.events = Append(@, ResultEvent(StreamMissingKeyResult))]
     ELSE stream' = [stream EXCEPT
            !.pc = "generating",
            !.system_prompt = _get_system_prompt(stream.mode),
            !.user_message =
               << [kind |-> "stream", request |-> "make the hero darker",
                   files |-> stream.files] >>,
            !.events = Append(@, ToolEvent("generate_code", "running"))]
  /\ UNCHANGED <<client, pc, req, heap, loc, outcome, result, sent, hist, endpoint, other>>

\* lines 444-465: the model call raises, or returns and generate_code success
\* is yielded
StreamModelResponds(o) ==
  /\ stream.pc = "generating"
  /\ \E st \in {[stream EXCEPT !.sent =
                   Append(@, [system |-> stream.system_prompt,
                              user |-> stream.user_message])]} :
       IF o.kind = "raise"
       THEN stream' = StreamThrow([st EXCEPT !.call = "raised"], o.exc)
       ELSE stream' = [st EXCEPT
              !.pc = "generated",
              !.call = "returned",
              !.response_content = o.content,
              !.events = Append(@, ToolEvent("generate_code", "success"))]
  /\ UNCHANGED <<client, pc, req, heap, loc, outcome, result, sent, hist, endpoint, other>>

\* lines 467-518: extraction, edits and merge; the result event is yielded
StreamFinish ==
  /\ stream.pc = "generated"
  /\ \E a \in {StreamAfterReply(heap, stream.response_content)} :
       /\ heap' = a.heap
       /\ IF a.raised
          THEN stream' = StreamThrow(stream, a.exc)
          ELSE stream' = [stream EXCEPT
                 !.pc = "result",
                 !.events = Append(@, ResultEvent(a.data))]
  /\ UNCHANGED <<client, pc, req, loc, outcome, result, sent, hist, endpoint, other>>

\* the consumer asks for the next event after the result: the generator ends
StreamClose ==
  /\ stream.pc = "result"
  /\ stream' = [stream EXCEPT !.pc = "closed", !.outcome = "finished"]
  /\ UNCHANGED <<client, pc, req, heap, loc, outcome, result, sent, hist, endpoint, other>>

\* the consumer is done with the events; the generator keeps nothing of the call
StreamReturn ==
  /\ stream.pc = "closed"
  /\ stream' = NoStream
  /\ heap' = [o \in ObjIds |-> EmptyDict]
  /\ other' = 0
  /\ UNCHANGED <<client, pc, req, loc, outcome, result, sent, hist, endpoint>>

(* ------------------------------------------------------------------ *)
(* The callers and the event loop                                      *)
(* ------------------------------------------------------------------ *)

\* a caller other than the generate endpoint awaits refine_portfolio
Refine(current_files, mode, auto_retry) ==
  /\ endpoint.pc = "idle"
  /\ Invoke(current_files, mode, auto_retry)
  /\ UNCHANGED endpoint

\* generation_result of generate_lovable_portfolio for the dict gen_resp
\* returned by refine_portfolio, whose files are the dict files
GenerationResult(gen_resp, files) ==
  [success |-> gen_resp.success, files |-> files,
   design_notes |-> gen_resp.summary, reply |-> gen_resp.summary]

\* the Project row added for a generation result
ProjectRow(generation_result, cached) ==
  [files |-> generation_result.files, from_cache |-> cached]

\* the response of the endpoint
GenerateResponse(generation_result, cached) ==
  [status |-> "success", files |-> generation_result.files,
   ai_reply |-> generation_result.reply, from_cache |-> cached,
   file_count |-> Cardinality(DOMAIN generation_result.files)]

\* lines 143-167: a request whose key is not in the cache: the endpoint
\* awaits refine_portfolio with current_files = {} and the default mode and
\* auto_retry; redis tells whether the CacheService reached Redis
GenerateStart(redis) ==
  /\ endpoint.pc = "idle"
  /\ Invoke(EmptyDict, "code", TRUE)
  /\ endpoint' = [NoEndpoint EXCEPT !.pc = "generating", !.redis = redis]

\* lines 169-268: the endpoint builds generation_result from the returned
\* dict, caches it, adds the Project, sets the session's portfolio_code and
\* answers
GenerateRespond ==
  /\ endpoint.pc = "generating"
  /\ pc = "done"
  /\ outcome = "returned"
  /\ \E g \in {GenerationResult(result, heap[result.files])} :
       endpoint' = [endpoint EXCEPT
         !.pc = "responded",
         !.cache = IF endpoint.redis THEN <<g>> ELSE <<>>,
         !.projects = Append(@, ProjectRow(g, FALSE)),
         !.portfolio_code = <<g.files>>,
         !.responses = Append(@, GenerateResponse(g, FALSE))]
  /\ UNCHANGED <<client, pc, req, heap, loc, outcome, result, sent, hist, stream, other>>

\* lines 143-159, 185-268: a later request with the same prompt, resume data
\* and framework finds the cache entry and is served from it
GenerateFromCache ==
  /\ endpoint.pc = "responded"
  /\ endpoint.cache # <<>>
  /\ endpoint' = [endpoint EXCEPT
       !.pc = "served",
       !.projects = Append(@, ProjectRow(endpoint.cache[1], TRUE)),
       !.portfolio_code = <<endpoint.cache[1].files>>,
       !.responses = Append(@, GenerateResponse(endpoint.cache[1], TRUE))]
  /\ UNCHANGED <<client, pc, req, heap, loc, outcome, result, sent, hist, stream, other>>

\* the cache entry expires (ttl = 3600); the model follows one entry from the
\* request that writes it to its expiry
GenerateDone ==
  /\ endpoint.pc \in {"responded", "served"}
  /\ endpoint' = NoEndpoint
  /\ pc' = "idle"
  /\ req' = NoReq
  /\ heap' = [o \in ObjIds |-> EmptyDict]
  /\ loc' = NoLoc
  /\ outcome' = "none"
  /\ result' = NoResult
  /\ sent' = <<>>
  /\ hist' = NoHist
  /\ UNCHANGED <<client, stream, other>>

\* the positions at which the refine_portfolio coroutine is suspended in an
\* await: the method holds no await expression, and chat.completions.create
\* of the synchronous Groq client returns the completion itself
RefineAwaitPoints == {}

\* the positions at which the stream_refine_portfolio generator is suspended
\* in a yield, its consumer sending the event
StreamYieldPoints == {"analyzing", "analyzed", "generating", "generated", "result"}

\* another task of the event loop runs one step: the loop is free only while
\* the task of the current call is suspended
OtherTaskRuns ==
  /\ pc \in RefineAwaitPoints \/ stream.pc \in StreamYieldPoints
  /\ other < MaxOther
  /\ other' = other + 1
  /\ UNCHANGED <<client, pc, req, heap, loc, outcome, result, sent, hist, stream, endpoint>>

Next ==
  \/ \E cf \in CurrentFilesChoices, m \in Modes, ar \in BOOLEAN : Refine(cf, m, ar)
  \/ CallModel
  \/ \E o \in ModelOutcomes : ModelResponds(o)
  \/ Finish
  \/ Return
  \/ \E cf \in CurrentFilesChoices, m \in Modes : StreamStart(cf, m)
  \/ StreamAnalyze
  \/ StreamPrepare
  \/ \E o \in ModelOutcomes : StreamModelResponds(o)
  \/ StreamFinish
  \/ StreamClose
  \/ StreamReturn
  \/ \E redis \in BOOLEAN : GenerateStart(redis)
  \/ GenerateRespond
  \/ GenerateFromCache
  \/ GenerateDone
  \/ OtherTaskRuns

Spec == Init /\ [][Next]_vars

(* ------------------------------------------------------------------ *)
(* Properties                                                          *)
(* ------------------------------------------------------------------ *)

Returned == pc = "done" /\ outcome = "returned"
Failed == Returned /\ ~result.success
Succeeded == Returned /\ result.success

\* the files of the returned result
ResultFiles == heap[result.files]

\* the number of model calls of the call
Calls == Len(sent)

Required == Range(REQUIRED_CORE_FILES)

\* a file set for which the request is an initial build: empty or lacking a
\* required file
IsInitialBuild(cf) == DOMAIN cf = {} \/ \E f \in Required : f \notin DOMAIN cf

LastAttempt == hist.attempts[Len(hist.attempts)]

\* the reply o was returned by the model and extracts to an object
ExtractsToObject(o) ==
  /\ o.kind = "reply"
  /\ _extract_json(o.content).ok
  /\ _extract_json(o.content).val.t = "obj"

\* the files value of a reply that extracts to an object ({} when it has none)
ReplyFiles(o) == DictGet(_extract_json(o.content).val.o, "files", JObj(EmptyDict))

\* v is a mapping from paths to texts
IsTextMapping(v) == v.t = "obj" /\ \A p \in DOMAIN v.o : v.o[p].t = "str"

\* tokens made of word characters only
WordTokens == {"Foo", "w", "s", "n", "json", "import", "from"}

\* the components a page imports with  from '@/components/<Name>'  (from,
\* whitespace, a quote, the alias, the name, a quote)
ComponentImports(toks) ==
  Range(FindallImports(toks, 1, <<>>, Whitespace, WordTokens \cup {"/"}))

\* the imported components of a file set's app/page.tsx that have no file
Dangling(files) ==
  IF "app/page.tsx" \in DOMAIN files /\ files["app/page.tsx"].t = "str"
  THEN {c \in ComponentImports(files["app/page.tsx"].s) :
          ("components/" \o c \o ".tsx") \notin DOMAIN files}
  ELSE {}

\* C1: whenever refine_portfolio returns success = false, the files of the
\* result equal the current_files that were passed in: nothing extracted on
\* any attempt is in them and no path is missing or changed.
C1_FailureKeepsFiles == Failed => ResultFiles = hist.in_files

C1_Witness ==
  /\ Failed
  /\ Calls = 2
  /\ result.error = "validation_failed"
  /\ loc.refined_files.t = "obj"
  /\ DOMAIN loc.refined_files.o # {}
  /\ DOMAIN hist.in_files # {}

\* C2: on an initial build where every reply is parseable and fails
\* validation, exactly 2 model calls are made with auto_retry and exactly 1
\* without, never more, and the result is success = false with error
\* "validation_failed" and the problem list of the last attempt.
C2_RetryBound ==
  (/\ loc.is_initial_generation
   /\ \A i \in 1..Len(hist.attempts) : hist.attempts[i].status = "invalid")
  => /\ Calls <= (IF req.auto_retry THEN 2 ELSE 1)
     /\ (pc = "done" /\ Len(hist.attempts) >= 1)
        => /\ Calls = (IF req.auto_retry THEN 2 ELSE 1)
           /\ Failed
           /\ result.error = "validation_failed"
           /\ result.validation_problems = LastAttempt.problems

C2_Witness ==
  /\ Failed
  /\ loc.is_initial_generation
  /\ req.auto_retry
  /\ Calls = 2
  /\ \A i \in 1..2 : hist.attempts[i].status = "invalid"
  /\ hist.attempts[1].problems # hist.attempts[2].problems

\* C3: whenever refine_portfolio returns success = true for an initial build,
\* the returned files contain every required core file and hold at most
\* MAX_FILES (60) files.
C3_SuccessIsComplete ==
  (Succeeded /\ IsInitialBuild(hist.in_files))
  => /\ Required \subseteq DOMAIN ResultFiles
     /\ Cardinality(DOMAIN ResultFiles) <= MAX_FILES

C3_Witness ==
  /\ Succeeded
  /\ DOMAIN hist.in_files # {}
  /\ IsInitialBuild(hist.in_files)
  /\ Cardinality(DOMAIN ResultFiles) > Cardinality(Required)

\* C4: whenever refine_portfolio returns success = true for an initial build,
\* every component the returned app/page.tsx imports with
\* from '@/components/<Name>' has a file components/<Name>.tsx among the
\* returned files.
C4_NoDanglingImport ==
  (Succeeded /\ IsInitialBuild(hist.in_files)) => Dangling(ResultFiles) = {}

\* the first reply holds a path-to-text mapping with every required file, whose
\* page imports no component without a file
FirstReplyComplete ==
  /\ Len(hist.attempts) >= 1
  /\ ExtractsToObject(hist.attempts[1].reply)
  /\ IsTextMapping(ReplyFiles(hist.attempts[1].reply))
  /\ Required \subseteq DOMAIN ReplyFiles(hist.attempts[1].reply).o
  /\ Dangling(ReplyFiles(hist.attempts[1].reply).o) = {}

\* the validator's own import scan reports nothing on the first reply
FirstReplyScanClean ==
  ImportProblems(ReplyFiles(hist.attempts[1].reply).o,
                 FindImports(ReplyFiles(hist.attempts[1].reply).o["app/page.tsx"].s)) = <<>>

\* C5 as stated: with empty current_files and mode code, if the first reply
\* contains all required files and no dangling imports, the call returns
\* success = true after exactly 1 model call.
C5_Original ==
  (/\ pc = "done"
   /\ hist.in_files = EmptyDict
   /\ req.mode = "code"
   /\ FirstReplyComplete
   /\ FirstReplyScanClean)
  => (Succeeded /\ Calls = 1)

\* C5 (amended): with empty current_files and mode code, if the first reply
\* passes validation -- all required files, at most MAX_FILES files, no import
\* the validator reports -- the call returns success = true after exactly 1
\* model call, with auto_retry or without.
C5_ValidFirstReplyOneCall ==
  (/\ pc = "done"
   /\ hist.in_files = EmptyDict
   /\ req.mode = "code"
   /\ FirstReplyComplete
   /\ FirstReplyScanClean
   /\ Cardinality(DOMAIN ReplyFiles(hist.attempts[1].reply).o) <= MAX_FILES)
  => (Succeeded /\ Calls = 1)

C5_Witness ==
  /\ Succeeded
  /\ hist.in_files = EmptyDict
  /\ req.mode = "code"
  /\ req.auto_retry
  /\ FirstReplyComplete
  /\ Calls = 1

\* C6: refine_portfolio never propagates an exception: whatever the model
\* does, the call ends by returning a dict with a boolean success.
C6_NeverRaises ==
  pc = "done"
  => /\ outcome = "returned"
     /\ "success" \in DOMAIN result
     /\ result.success \in BOOLEAN

C6_Witness ==
  /\ Returned
  /\ Len(hist.attempts) = 1
  /\ LastAttempt.status \in {"not_an_object", "update_raised", "validate_raised"}

\* C7: every failed result has a non-empty error code and a non-empty thought,
\* on every failure path, the unconfigured client included.
C7_FailurePopulated == Failed => (result.error # "" /\ result.thought # "")

\* the taxonomy code the cause of the failure calls for
TaxonomyCode ==
  IF ~client THEN "model_unavailable"
  ELSE IF Len(hist.attempts) >= 1 /\ LastAttempt.status = "call_raised"
  THEN "model_unavailable"
  ELSE IF Len(hist.attempts) >= 1 /\ LastAttempt.status = "extract_raised"
  THEN "extraction_failed"
  ELSE IF Len(hist.attempts) >= 1 /\ LastAttempt.status = "invalid"
  THEN "validation_failed"
  ELSE "internal_error"

C9_Original ==
  (pc = "done" /\ client /\ ~IsInitialBuild(hist.in_files))
  => /\ hist.validations = 0
     /\ Calls = 1
     /\ ExtractsToObject(hist.attempts[1].reply) => Succeeded

\* C9 (amended): for a refinement the validator is never invoked, exactly one
\* model call is made, and any reply that extracts to an object whose files
\* value is absent or a path-to-text mapping yields success = true, whatever
\* files it contains or omits.
C9_RefinementSkipsValidation ==
  (pc = "done" /\ client /\ ~IsInitialBuild(hist.in_files))
  => /\ hist.validations = 0
     /\ Calls = 1
     /\ (/\ ExtractsToObject(hist.attempts[1].reply)
         /\ IsTextMapping(ReplyFiles(hist.attempts[1].reply)))
        => Succeeded

C9_Witness ==
  /\ Succeeded
  /\ ~IsInitialBuild(hist.in_files)
  /\ req.auto_retry
  /\ Cardinality(DOMAIN ResultFiles) > MAX_FILES

\* C10: _detect_initial_generation marks a file set as initial build iff it is
\* empty or lacks a required core file, and returns as missing exactly the
\* required files absent from it (none for a complete file set); the result
\* is determined by the current_files of the call.
C10_Classification ==
  (client /\ pc # "idle")
  => /\ loc.is_initial_generation = IsInitialBuild(hist.in_files)
     /\ Range(loc.missing_core_files) = Required \ DOMAIN hist.in_files
     /\ Len(loc.missing_core_files) = Cardinality(Required \ DOMAIN hist.in_files)
     /\ (Required \subseteq DOMAIN hist.in_files)
        => (~loc.is_initial_generation /\ loc.missing_core_files = <<>>)

C10_Witness ==
  /\ client
  /\ pc = "loop"
  /\ DOMAIN hist.in_files # {}
  /\ loc.is_initial_generation
  /\ Len(loc.missing_core_files) = 2

(* ------------------------------------------------------------------ *)
(* Properties of the merge, the validator, the extractor, the prompts  *)
(* and the event stream                                                *)
(* ------------------------------------------------------------------ *)

\* the generator has yielded its result event
StreamHasResult ==
  /\ stream.events # <<>>
  /\ stream.events[Len(stream.events)].type = "result"

\* the data of the result event
StreamResult == stream.events[Len(stream.events)].data

StreamSucceeded == StreamHasResult /\ StreamResult.success
StreamFailed == StreamHasResult /\ ~StreamResult.success

\* the files value of the reply the generator received
StreamReplyFiles == ReplyFiles([content |-> stream.response_content])

\* m is the right-biased union of cur and the extracted files value extv
IsRightBiasedUnion(m, cur, extv) ==
  /\ extv.t = "obj"
  /\ DOMAIN m = DOMAIN cur \cup DOMAIN extv.o
  /\ \A p \in DOMAIN extv.o : m[p] = extv.o[p]
  /\ \A p \in DOMAIN cur \ DOMAIN extv.o : m[p] = cur[p]
  /\ (DOMAIN extv.o = {}) => (m = cur)

\* C11: on every successful result the returned files are the right-biased
\* union of current_files and the extracted files: the keys of both, the
\* extracted content for every extracted path, the current_files content for
\* every other path; with no extracted file they equal current_files.
C11_MergeRightBiased ==
  /\ Succeeded =>
       IsRightBiasedUnion(ResultFiles, hist.in_files, ReplyFiles(LastAttempt.reply))
  /\ StreamSucceeded =>
       IsRightBiasedUnion(heap[StreamResult.files], stream.in_files, StreamReplyFiles)

C11_Witness ==
  /\ Succeeded
  /\ \E p \in DOMAIN hist.in_files \cap DOMAIN ReplyFiles(LastAttempt.reply).o :
        hist.in_files[p] # ReplyFiles(LastAttempt.reply).o[p]
  /\ \E p \in DOMAIN hist.in_files : p \notin DOMAIN ReplyFiles(LastAttempt.reply).o

\* the validator has run on the last attempt and returned its verdict
Validated ==
  /\ Len(hist.attempts) >= 1
  /\ LastAttempt.status \in {"valid", "invalid"}

\* the file set the validator was given on the last attempt, and its problems
ValidatedFiles == heap["merged_for_validation"]
Problems == LastAttempt.problems

\* the number of entries of the problem list equal to msg
Occurrences(msg) == Cardinality({i \in 1..Len(Problems) : Problems[i] = msg})

ImportMessage(c) ==
  "Component '" \o c \o "' imported in app/page.tsx but components/" \o c
  \o ".tsx not created"

\* C12: the validator evaluates every rule on the file set it is given: one
\* "Missing required file" entry for each missing required file and none for
\* a present one, the file-count problem and the problem of every dangling
\* component import in the same list, and the verdict is valid iff the list
\* is empty.
C12_AllRulesReported ==
  Validated =>
    /\ \A f \in Required :
         Occurrences("Missing required file: " \o f)
           = (IF f \in DOMAIN ValidatedFiles THEN 0 ELSE 1)
    /\ (Cardinality(DOMAIN ValidatedFiles) > MAX_FILES)
         => \E i \in 1..Len(Problems) : Problems[i] \in Range(CountProblems(ValidatedFiles))
    /\ \A c \in Dangling(ValidatedFiles) : Occurrences(ImportMessage(c)) >= 1
    /\ (LastAttempt.status = "valid") <=> (Problems = <<>>)

\* C13: when the validated app/page.tsx imports component Foo from
\* '@/components/Foo' and the file set has no components/Foo.tsx, validation
\* fails with exactly one problem naming Foo, and the same file set with
\* components/Foo.tsx added gets the same problems without that one.
C13_DanglingFooReported ==
  (Validated /\ "Foo" \in Dangling(ValidatedFiles)) =>
    /\ LastAttempt.status = "invalid"
    /\ Occurrences(ImportMessage("Foo")) = 1
    /\ _validate_generated_files(
         [p \in DOMAIN ValidatedFiles \cup {"components/Foo.tsx"} |->
            IF p \in DOMAIN ValidatedFiles THEN ValidatedFiles[p] ELSE PlainCode]
       ).val.problems
       = SelectSeq(Problems, LAMBDA m : m # ImportMessage("Foo"))

\* the file-count message for a count of k files
CountMessage(k) == "Too many files generated (" \o ToString(k) \o " > 60)"

\* C14: the validator reports "Too many files generated (<n> > 60)" iff the
\* file set has n > 60 files: none for 60 files or fewer, exactly one for
\* more, carrying the count n, and then the verdict is invalid.
C14_FileCountRule ==
  Validated =>
    LET n == Cardinality(DOMAIN ValidatedFiles)
    IN /\ (n > 60) => (Occurrences(CountMessage(n)) = 1 /\ LastAttempt.status = "invalid")
       /\ (n <= 60) => \A k \in 0..(2 * MAX_FILES) : Occurrences(CountMessage(k)) = 0
       /\ \A k \in 0..(2 * MAX_FILES) : (k # n) => Occurrences(CountMessage(k)) = 0

C14_Witness ==
  /\ Validated
  /\ Cardinality(DOMAIN ValidatedFiles) > MAX_FILES
  /\ Problems = <<CountMessage(Cardinality(DOMAIN ValidatedFiles))>>

\* the message contents the model has returned to the two methods
SeenContents ==
  {hist.attempts[i].reply.content :
     i \in {j \in 1..Len(hist.attempts) : hist.attempts[j].reply.kind = "reply"}}
  \cup (IF stream.call = "returned" THEN {stream.response_content} ELSE {})

\* the serialisation of Doc(d) inside a fenced block: the line of three
\* backquotes and json, a newline, the serialisation, a newline, three backquotes
Fenced(d) == <<"<fence>", "json", "\n", d, "\n", "<fence>">>

\* C15: extraction round-trips: for every structured object O, _extract_json
\* of the serialisation of O returns O, and _extract_json of that
\* serialisation wrapped in a fenced json block returns O as well.
C15_ExtractionRoundTrips ==
  \A c \in SeenContents : \A d \in DocIds :
    (c.t = "str" /\ Doc(d).t = "obj" /\ (c.s = <<d>> \/ c.s = Fenced(d)))
    => _extract_json(c) = Ok(Doc(d))

\* C16: _extract_json of a text either returns an object (a key-to-value
\* mapping) or raises its extraction error (ValueError): a text that parses as
\* JSON but is no object is never returned.
C16_ExtractObjectOrFail ==
  \A c \in SeenContents :
    (c.t = "str") =>
      IF _extract_json(c).ok
      THEN _extract_json(c).val.t = "obj"
      ELSE _extract_json(c).exc.type = "ValueError"

KnownModes == {"code", "design", "advanced-code", "strategy", "approaches"}

\* the overlay of each known mode, by the heading that opens it
Overlay(mode) ==
  CASE mode = "code" -> "MODE: Code Changes"
    [] mode = "design" -> "MODE: Design Tips"
    [] mode = "advanced-code" -> "MODE: Advanced Code Generation"
    [] mode = "strategy" -> "MODE: Design Strategy"
    [] mode = "approaches" -> "MODE: Multiple Implementation Approaches"

\* what the claim says _get_system_prompt returns for mode
PromptFor(mode) ==
  IF mode \in KnownModes THEN get_base_prompt \o <<Overlay(mode)>>
  ELSE get_code_mode_prompt

\* C17: _get_system_prompt is total: for a mode outside the five known modes
\* it returns exactly the code-mode prompt, and for each known mode the shared
\* base prompt followed by that mode's own overlay; no call fails on its mode.
C17_SystemPromptTotal ==
  /\ (client /\ pc # "idle") =>
        /\ loc.system_prompt = PromptFor(req.mode)
        /\ \A i \in 1..Len(sent) : sent[i].system = PromptFor(req.mode)
  /\ (stream.pc \in {"generating", "generated"}) =>
        stream.system_prompt = PromptFor(stream.mode)

C17_Witness ==
  /\ pc = "awaiting"
  /\ req.mode \notin KnownModes
  /\ sent[1].system = get_base_prompt \o <<"MODE: Code Changes">>

\* the tool events of a run that goes through every step, in order
PipelineTools ==
  << ToolEvent("analyze_request", "running"), ToolEvent("analyze_request", "success"),
     ToolEvent("generate_code", "running"), ToolEvent("generate_code", "success") >>

ToolsYielded == SelectSeq(stream.events, LAMBDA ev : ev.type = "tool")
ResultPositions == {i \in 1..Len(stream.events) : stream.events[i].type = "result"}

\* the reply the generator received does not extract
StreamExtractionFails ==
  stream.call = "returned" /\ ~_extract_json(stream.response_content).ok

\* C18: every run of stream_refine_portfolio yields tool events in pipeline
\* order (generate_code success only after the model call returned), then
\* exactly one result event, which is the last event; when the client is
\* missing, the model call raises or extraction fails the result has
\* success = false; every failed result has a non-empty error and thought and
\* the files passed in; the generator never raises to its consumer.
C18_StreamWellFormed ==
  /\ stream.outcome # "raised"
  /\ Len(ToolsYielded) <= Len(PipelineTools)
  /\ ToolsYielded = SubSeq(PipelineTools, 1, Len(ToolsYielded))
  /\ (Len(ToolsYielded) = Len(PipelineTools)) => (stream.call = "returned")
  /\ Cardinality(ResultPositions) <= 1
  /\ ResultPositions \subseteq {Len(stream.events)}
  /\ (stream.pc \in {"result", "closed"}) <=> StreamHasResult
  /\ (StreamHasResult /\ (~client \/ stream.call = "raised" \/ StreamExtractionFails))
       => StreamFailed
  /\ StreamFailed =>
       /\ StreamResult.error # ""
       /\ StreamResult.thought # ""
       /\ heap[StreamResult.files] = stream.in_files

C18_Witness ==
  /\ stream.pc = "closed"
  /\ stream.outcome = "finished"
  /\ StreamExtractionFails
  /\ Len(stream.events) = 5
  /\ StreamFailed
  /\ DOMAIN stream.in_files # {}

\* the reply the generator received extracts to an object
StreamExtractsToObject ==
  /\ stream.call = "returned"
  /\ ExtractsToObject([kind |-> "reply", content |-> stream.response_content])

\* C19 as stated: stream_refine_portfolio makes at most one model call (none
\* without a client) and whenever the reply extracts to an object its result
\* has success = true.
C19_Original ==
  /\ Len(stream.sent) <= 1
  /\ ~client => Len(stream.sent) = 0
  /\ (stream.pc \in {"result", "closed"} /\ StreamExtractsToObject) => StreamSucceeded

\* C19 (amended): stream_refine_portfolio makes at most one model call (none
\* without a client) and never validates or retries: whenever the reply
\* extracts to an object whose files value is absent or a path-to-text mapping
\* its result has success = true, even when current_files is empty and the
\* merged files lack required files or hold dangling imports.
C19_StreamNoValidation ==
  /\ Len(stream.sent) <= 1
  /\ ~client => Len(stream.sent) = 0
  /\ (/\ stream.pc \in {"result", "closed"}
      /\ StreamExtractsToObject
      /\ IsTextMapping(StreamReplyFiles))
     => StreamSucceeded

C19_Witness ==
  /\ StreamSucceeded
  /\ stream.in_files = EmptyDict
  /\ Len(stream.sent) = 1
  /\ ~(Required \subseteq DOMAIN heap[StreamResult.files])
  /\ Dangling(heap[StreamResult.files]) # {}

\* C20: refine_portfolio and stream_refine_portfolio never change the
\* current_files dict of their caller: during and after every call it holds
\* the paths and contents it was passed with, and the files of a successful
\* result are another dict object than current_files.
C20_CallerFilesUntouched ==
  /\ (pc # "idle") => (heap["current_files"] = hist.in_files)
  /\ Succeeded => (result.files # "current_files")
  /\ (stream.pc # "idle") => (heap["current_files"] = stream.in_files)
  /\ StreamSucceeded => (StreamResult.files # "current_files")

C20_Witness ==
  /\ Succeeded
  /\ Calls = 2
  /\ DOMAIN hist.in_files # {}
  /\ ResultFiles # hist.in_files
  /\ heap["current_files"] = hist.in_files

(* ------------------------------------------------------------------ *)
(* Properties of the retry loop, the edits and the stream prompt       *)
(* ------------------------------------------------------------------ *)

\* the reply of attempt i was returned by the model and is no parseable text
ExtractionFailsAt(i) ==
  /\ hist.attempts[i].reply.kind = "reply"
  /\ ~_extract_json(hist.attempts[i].reply.content).ok

C22_ClientFailureIsTerminal ==
  \A i \in 1..Len(hist.attempts) :
    (hist.attempts[i].reply.kind = "raise") =>
      /\ i = Len(hist.attempts)
      /\ Calls = i
      /\ Failed
      /\ result.error = hist.attempts[i].reply.exc.msg
      /\ ResultFiles = hist.in_files

C22_Witness ==
  /\ Failed
  /\ Calls = 2
  /\ hist.attempts[1].status = "invalid"
  /\ hist.attempts[2].reply.kind = "raise"
  /\ heap["merged_for_validation"] # hist.in_files

\* current_files holds some required files and the first reply supplies, as a
\* path-to-text mapping, exactly the missing ones
ResumesBuild ==
  /\ Len(hist.attempts) >= 1
  /\ Required \cap DOMAIN hist.in_files # {}
  /\ Required \ DOMAIN hist.in_files # {}
  /\ ExtractsToObject(hist.attempts[1].reply)
  /\ IsTextMapping(ReplyFiles(hist.attempts[1].reply))
  /\ DOMAIN ReplyFiles(hist.attempts[1].reply).o = Required \ DOMAIN hist.in_files

\* C23 as stated: on an initial build validation runs on current_files merged
\* with the extracted files; when current_files holds some required files and
\* the reply supplies exactly the missing ones, validation passes and the call
\* succeeds.
C23_Original ==
  /\ (Validated /\ ReplyFiles(LastAttempt.reply).t = "obj") =>
        IsRightBiasedUnion(ValidatedFiles, hist.in_files, ReplyFiles(LastAttempt.reply))
  /\ (pc = "done" /\ ResumesBuild) => (Succeeded /\ Calls = 1)

\* C23 (amended): on an initial build validation runs on current_files merged
\* (right-biased) with the extracted files, never on the new files alone; when
\* current_files holds some required files, the reply supplies exactly the
\* missing ones and the merged set has at most MAX_FILES files and no import
\* the validator reports, validation passes and the call succeeds.
C23_ValidatesMergedFiles ==
  /\ (Validated /\ ReplyFiles(LastAttempt.reply).t = "obj") =>
        IsRightBiasedUnion(ValidatedFiles, hist.in_files, ReplyFiles(LastAttempt.reply))
  /\ (/\ pc = "done"
      /\ ResumesBuild
      /\ Cardinality(DOMAIN hist.in_files \cup Required) <= MAX_FILES
      /\ ("app/page.tsx" \in DOMAIN ValidatedFiles
          => ImportProblems(ValidatedFiles,
                            FindImports(ValidatedFiles["app/page.tsx"].s)) = <<>>))
     => (Succeeded /\ Calls = 1)

C23_Witness ==
  /\ Succeeded
  /\ ResumesBuild
  /\ Calls = 1
  /\ ~(Required \subseteq DOMAIN ReplyFiles(hist.attempts[1].reply).o)
  /\ Required \subseteq DOMAIN ResultFiles

\* the feedback blocks of a user message
FeedbackBlocks(msg) ==
  SelectSeq(msg, LAMBDA b : b.kind = "validation_failed_feedback")

\* C24: on the retry the user message is the first attempt's user message
\* with exactly one feedback block appended, holding verbatim the problems
\* found by validating the first attempt and the instruction to fix them; the
\* first message has no feedback block; the system prompt is the same on both
\* attempts.
C24_RetryFeedback ==
  /\ Len(sent) >= 1 => FeedbackBlocks(sent[1].user) = <<>>
  /\ Len(sent) >= 2 =>
       /\ Len(sent[2].user) = Len(sent[1].user) + 1
       /\ SubSeq(sent[2].user, 1, Len(sent[1].user)) = sent[1].user
       /\ Len(FeedbackBlocks(sent[2].user)) = 1
       /\ sent[2].user[Len(sent[2].user)].problems = hist.attempts[1].problems
       /\ sent[2].user[Len(sent[2].user)].instruction
            = "CRITICAL: Fix all validation errors."
       /\ hist.attempts[1].problems # <<>>
       /\ sent[2].system = sent[1].system

C24_Witness ==
  /\ Len(sent) = 2
  /\ Len(hist.attempts[1].problems) >= 2
  /\ sent[2].user[Len(sent[2].user)].problems = hist.attempts[1].problems

\* the files value of the reply of attempt i
AttemptFiles(i) == ReplyFiles(hist.attempts[i].reply)

\* C25: when the call retries, the files of the first attempt are dropped:
\* the second attempt is validated on current_files merged with the second
\* reply's files only, and refined_files, the edits and the returned files
\* hold no file that only the first reply had.
C25_FirstAttemptDiscarded ==
  (/\ Len(hist.attempts) = 2
   /\ AttemptFiles(1).t = "obj"
   /\ ExtractsToObject(hist.attempts[2].reply)
   /\ AttemptFiles(2).t = "obj") =>
    LET OnlyFirst ==
          DOMAIN AttemptFiles(1).o \ (DOMAIN hist.in_files \cup DOMAIN AttemptFiles(2).o)
    IN /\ Validated =>
            IsRightBiasedUnion(ValidatedFiles, hist.in_files, AttemptFiles(2))
       /\ (Validated /\ ~(Required \subseteq DOMAIN hist.in_files \cup DOMAIN AttemptFiles(2).o))
            => (LastAttempt.status = "invalid" /\ (pc = "done" => Failed))
       /\ Returned =>
            /\ DOMAIN result.refined_files.o \cap OnlyFirst = {}
            /\ DOMAIN result.edits_made \cap OnlyFirst = {}
            /\ DOMAIN ResultFiles \cap OnlyFirst = {}
       /\ (Succeeded \/ (Failed /\ result.error = "validation_failed"))
            => result.refined_files = AttemptFiles(2)
       /\ Succeeded =>
            /\ IsRightBiasedUnion(ResultFiles, hist.in_files, AttemptFiles(2))
            /\ DOMAIN result.edits_made = DOMAIN AttemptFiles(2).o

C25_Witness ==
  /\ Failed
  /\ Calls = 2
  /\ result.error = "validation_failed"
  /\ ExtractsToObject(hist.attempts[1].reply)
  /\ AttemptFiles(1).t = "obj"
  /\ AttemptFiles(2).t = "obj"
  /\ Required \subseteq DOMAIN AttemptFiles(1).o \cup DOMAIN AttemptFiles(2).o
  /\ DOMAIN AttemptFiles(2).o # {}
  /\ DOMAIN AttemptFiles(1).o \ DOMAIN AttemptFiles(2).o # {}

\* the reply o extracts to an object that has no files key
NoFilesKey(o) ==
  /\ ExtractsToObject(o)
  /\ "files" \notin DOMAIN _extract_json(o.content).val.o

\* C26: whether validation runs depends on current_files only, never on the
\* mode: in every mode a well-formed reply is validated iff current_files is
\* empty or lacks a required file; a reply without a files key then ends in
\* validation_failed once the attempts are used up, and against a complete
\* current_files it succeeds with no changed file.
C26_ValidationIgnoresMode ==
  /\ \A i \in 1..Len(hist.attempts) :
       (ExtractsToObject(hist.attempts[i].reply) /\ IsTextMapping(AttemptFiles(i)))
       => IF IsInitialBuild(hist.in_files)
          THEN hist.attempts[i].status \in {"valid", "invalid"}
          ELSE hist.attempts[i].status = "validation_skipped"
  /\ (/\ pc = "done" /\ client
      /\ IsInitialBuild(hist.in_files)
      /\ \A i \in 1..Len(hist.attempts) : NoFilesKey(hist.attempts[i].reply))
     => /\ Failed
        /\ result.error = "validation_failed"
        /\ Calls = (IF req.auto_retry THEN 2 ELSE 1)
  /\ (/\ pc = "done" /\ client
      /\ ~IsInitialBuild(hist.in_files)
      /\ NoFilesKey(hist.attempts[1].reply))
     => /\ Succeeded
        /\ result.refined_files = JObj(EmptyDict)
        /\ DOMAIN result.edits_made = {}
        /\ ResultFiles = hist.in_files

C26_Witness ==
  /\ Failed
  /\ req.mode = "design"
  /\ Calls = 2
  /\ \A i \in 1..2 : NoFilesKey(hist.attempts[i].reply)
  /\ result.error = "validation_failed"

\* the number of lines of a text: one more than its newline characters
LineCount(toks) == 1 + Cardinality({i \in 1..Len(toks) : toks[i] = "\n"})

\* the line count of a path's previous content, 0 when the path is absent
OldLineCount(cur, fn) ==
  IF fn \in DOMAIN cur /\ Truthy(cur[fn]) THEN LineCount(cur[fn].s) ELSE 0

\* the edits are one record per extracted path with the line arithmetic of
\* the claim
EditsAreLineDiffs(edits, cur, ext) ==
  /\ DOMAIN edits = DOMAIN ext
  /\ \A fn \in DOMAIN ext :
       LET old == OldLineCount(cur, fn)
           new == LineCount(ext[fn].s)
       IN /\ edits[fn].total_lines = new
          /\ edits[fn].lines_added = (IF new > old THEN new - old ELSE 0)
          /\ edits[fn].lines_removed = (IF old > new THEN old - new ELSE 0)
          /\ edits[fn].lines_added >= 0
          /\ edits[fn].lines_removed >= 0
          /\ (edits[fn].lines_added = 0 \/ edits[fn].lines_removed = 0)

\* C27: a successful result has exactly one edit record per extracted path
\* and none for another path, with lines_added = max(0, new - old),
\* lines_removed = max(0, old - new) and total_lines = new, old and new being
\* the line counts of the previous content (0 when absent) and of the new one.
C27_EditRecords ==
  /\ Succeeded =>
       EditsAreLineDiffs(result.edits_made, hist.in_files, result.refined_files.o)
  /\ StreamSucceeded =>
       EditsAreLineDiffs(StreamResult.edits_made, stream.in_files,
                         StreamResult.refined_files.o)

\* C28 as stated: for every mode, the system prompt stream_refine_portfolio
\* sends to the model is the code-mode prompt.
C28_Original ==
  \A i \in 1..Len(stream.sent) : stream.sent[i].system = get_code_mode_prompt

\* C28 (amended): stream_refine_portfolio builds its prompt for the mode it is
\* called with: the system prompt it sends is the prompt of that mode, the
\* code-mode prompt for mode code and for every unknown mode.
C28_StreamPromptByMode ==
  \A i \in 1..Len(stream.sent) : stream.sent[i].system = PromptFor(stream.mode)

C28_Witness ==
  /\ Len(stream.sent) = 1
  /\ stream.mode = "design"
  /\ stream.sent[1].system = get_base_prompt \o <<"MODE: Design Tips">>

(* ------------------------------------------------------------------ *)
(* Properties of the generate endpoint and of the event loop           *)
(* ------------------------------------------------------------------ *)

\* C29: the generate endpoint persists generator output only after a
\* successful result: when refine_portfolio returned success = false it
\* writes no cache entry, adds no Project, leaves the session's
\* portfolio_code alone and does not answer with status "success"; no cache
\* entry holds a failed generation for a later identical request.
C29_PersistsOnlySuccess ==
  /\ (endpoint.pc \in {"responded", "served"} /\ Failed) =>
       /\ endpoint.cache = <<>>
       /\ endpoint.projects = <<>>
       /\ endpoint.portfolio_code = <<>>
       /\ \A i \in 1..Len(endpoint.responses) : endpoint.responses[i].status # "success"
  /\ \A i \in 1..Len(endpoint.cache) : endpoint.cache[i].success

\* C30: within a generation call the model client call is the only
\* suspension point: while refine_portfolio waits for the model's reply
\* another task can run, and at no other step of the call can one.
C30_ModelCallSuspends ==
  /\ (pc = "awaiting") => ENABLED OtherTaskRuns
  /\ (pc = "loop") => ~ENABLED OtherTaskRuns

====
